---- MODULE Spec2Model ----
(***************************************************************************)
(* Model of sqldef's SQL Server adapter (adapter/mssql/mssql.go) and of    *)
(* the mysqldef command line (cmd/mysqldef/mysqldef.go).                   *)
(*                                                                         *)
(* A qualified table name "schema.name" is a sequence of its dot-free      *)
(* segments, <<schema, name>>; DDL text is a sequence of fragments, each   *)
(* either literal text of a format string (Lit) or a substituted value     *)
(* (Arg, with the field it comes from).                                    *)
(***************************************************************************)
EXTENDS Integers, Sequences, FiniteSets, TLC

VARIABLES
    pc,                       \* position of the running operation
    catalog,                  \* content of the database (sys.objects, sys.foreign_keys)
    tables,                   \* TableNames: the 'tables' slice
    foreignTableMap,          \* TableNames: table -> names its foreign keys point at
    dependencyOrderedTables,  \* TableNames: the ordered list
    addedTables,              \* TableNames: set of tables already ordered
    i,                        \* TableNames: index of the inner loop
    lastTableLen,             \* TableNames: len(tables) at the start of the pass
    passes,                   \* TableNames: outer passes started so far (up to PassCap)
    result,                   \* the returned value (list of names, DDL text)
    err,                      \* outcome: "none", "error" (non-nil error returned), "panic"
    failed,                   \* TRUE once a catalog query or row scan has failed
    cols,                     \* DumpTableDDL: the columns read by getColumns
    indexDefs,                \* DumpTableDDL: the indexes read by getIndexDefs
    foreignDefs,              \* DumpTableDDL: the clauses built by getForeignDefs
    env,                      \* mysqldef: parsed command line, environment, terminal
    options,                  \* mysqldef: sqldef.Options
    database,                 \* mysqldef: the local 'database' of parseOptions
    password,                 \* mysqldef: the local 'password' of parseOptions
    config,                   \* mysqldef: the adapter.Config returned
    exitCode,                 \* mysqldef: -1 while the process runs, else its exit code
    opened                    \* mysqldef: the database main has opened

tnLocals == <<tables, foreignTableMap, dependencyOrderedTables, addedTables, i, lastTableLen,
              passes>>
dumpLocals == <<cols, indexDefs, foreignDefs>>
optLocals == <<env, options, database, password, config, exitCode, opened>>

vars == <<pc, catalog, result, err, failed, tnLocals, dumpLocals, optLocals>>

\* ---------------------------------------------------------------- bounds

MaxTables == 3
MaxFKs == 3
MaxColumnLength == 60
MaxCols == 2
MaxIndexes == 3
MaxArgs == 2
MaxFiles == 2

\* ------------------------------------------------------------- universes

Schemas == {"dbo", "s2"}
Names == {"a", "b"}
QNames == {<<s, n>> : s \in Schemas, n \in Names}

\* ---------------------------------------------------------------- helpers

Range(s) == {s[k] : k \in 1..Len(s)}

\* all the orders in which the elements of a finite set can be listed
Perms(S) == {s \in [1..Cardinality(S) -> S] : Range(s) = S}

\* ORDER BY name: the rank of a name in the collation
NameRank(n) == CASE n = "a" -> 1 [] n = "b" -> 2 [] OTHER -> 3

\* ------------------------------------------------------------ text model

Lit(s) == [k |-> "lit", s |-> s]
Arg(f, s) == [k |-> f, s |-> s]

\* a table name as it is printed with %s: its segments joined by "."
TableText(t) ==
    IF Len(t) = 1 THEN <<Arg("table", t[1])>>
    ELSE <<Arg("table", t[1]), Arg("table", "."), Arg("table", t[2])>>

\* strings.Replace(s, "_", " ", -1) on the referential actions of sys.foreign_keys
ReplaceUnderscore(s) ==
    CASE s = "NO_ACTION" -> "NO ACTION"
      [] s = "SET_NULL" -> "SET NULL"
      [] s = "SET_DEFAULT" -> "SET DEFAULT"
      [] OTHER -> s

\* -------------------------------------------------------- splitTableName

splitTableName(table) ==
    IF Len(table) >= 2 THEN <<table[1], table[2]>> ELSE <<"dbo", table[1]>>

\* ----------------------------------------------------------- the catalog

\* A foreign key of the catalog: name, parent table 'from', referenced table 'to',
\* its column pairs, its rules.  The query of getForeignDefs joins
\* sys.foreign_keys with sys.foreign_key_columns: one row per column pair, and
\* OBJECT_NAME(referenced_object_id) is the referenced table's name without schema.
FKRowsOf(fk) ==
    {[constraintName |-> fk.name,
      columnName |-> fk.cols[k][1],
      foreignTableName |-> fk.to[2],
      foreignColumnName |-> fk.cols[k][2],
      foreignUpdateRule |-> fk.upd,
      foreignDeleteRule |-> fk.del,
      notForReplication |-> fk.nfr] : k \in 1..Len(fk.cols)}

\* the rows of the foreign-key query for 'table' (WHERE f.parent_object_id = ...)
ForeignRows(fks, table) ==
    UNION {FKRowsOf(fk) : fk \in {f \in fks : f.from = table}}

\* ---------------------------------------------------------- getForeignDefs

ForeignDefText(schema, row) ==
    <<Lit("CONSTRAINT "), Lit("["), Arg("constraintName", row.constraintName), Lit("]"),
      Lit(" FOREIGN KEY ("), Lit("["), Arg("columnName", row.columnName), Lit("]"),
      Lit(") REFERENCES ")>>
    \o TableText(<<schema, row.foreignTableName>>)
    \o <<Lit(" ("), Lit("["), Arg("foreignColumnName", row.foreignColumnName), Lit("]"),
         Lit(") ON UPDATE "), Arg("foreignUpdateRule", ReplaceUnderscore(row.foreignUpdateRule)),
         Lit(" ON DELETE "), Arg("foreignDeleteRule", ReplaceUnderscore(row.foreignDeleteRule))>>
    \o (IF row.notForReplication THEN <<Lit(" NOT FOR REPLICATION")>> ELSE <<>>)

\* the name the code gives the referenced table: the PARENT's schema + "." + name
ForeignTableNameOf(schema, row) == <<schema, row.foreignTableName>>

\* rows: the rows of the query in the order the backend returns them
getForeignDefs(table, rows) ==
    LET schema == splitTableName(table)[1]
    IN  [defs |-> [k \in 1..Len(rows) |-> ForeignDefText(schema, rows[k])],
         foreignTableNames |-> [k \in 1..Len(rows) |-> ForeignTableNameOf(schema, rows[k])]]

\* ------------------------------------------------------ reserved keywords

\* strings.ToLower on the identifiers of the model
ToLower(s) ==
    CASE s = "Key" -> "key"
      [] s = "PK_a" -> "pk_a"
      [] s = "DF_Key" -> "df_key"
      [] OTHER -> s

\* sqlparser.Keywords(): the keyword table of the parser (a sample of it)
Keywords == {"key", "order", "index", "int"}

\* init(): reservedKeywords[strings.ToLower(keyword)] = true
reservedKeywords == {ToLower(k) : k \in Keywords}

getSafeColumnName(name) ==
    IF ToLower(name) \in reservedKeywords
    THEN <<Lit("["), Arg("Name", name), Lit("]")>>
    ELSE <<Arg("Name", name)>>

\* ------------------------------------------------------- strconv on ints

Digit(d) ==
    CASE d = 0 -> "0" [] d = 1 -> "1" [] d = 2 -> "2" [] d = 3 -> "3" [] d = 4 -> "4"
      [] d = 5 -> "5" [] d = 6 -> "6" [] d = 7 -> "7" [] d = 8 -> "8" [] d = 9 -> "9"

RECURSIVE Itoa(_)
Itoa(n) ==
    IF n < 0 THEN "-" \o Itoa(-n)
    ELSE IF n < 10 THEN Digit(n)
    ELSE Itoa(n \div 10) \o Digit(n % 10)

\* strconv.Atoi on the decimal strings of -1..MaxColumnLength; anything else is an error
Atoi(s) ==
    IF \E n \in -1..MaxColumnLength : Itoa(n) = s
    THEN [ok |-> TRUE, val |-> CHOOSE n \in -1..MaxColumnLength : Itoa(n) = s]
    ELSE [ok |-> FALSE, val |-> 0]

\* Go's integer division truncates toward zero
GoDiv(a, b) == IF a >= 0 THEN a \div b ELSE -((-a) \div b)

\* ------------------------------------------------------ column.getLength

\* a getLength that gives nvarchar and nchar their length in bytes
getLengthInBytes(c) ==
    IF c.dataType \in {"char", "varchar", "binary", "varbinary", "nvarchar", "nchar"}
    THEN IF c.MaxLength = "-1" THEN <<"max", TRUE>> ELSE <<c.MaxLength, TRUE>>
    ELSE IF c.dataType = "datetimeoffset"
    THEN IF c.Scale = "7" THEN <<"", FALSE>> ELSE <<c.Scale, TRUE>>
    ELSE <<"", FALSE>>

getLength(c) ==
    IF c.dataType \in {"char", "varchar", "binary", "varbinary"}
    THEN IF c.MaxLength = "-1" THEN <<"max", TRUE>> ELSE <<c.MaxLength, TRUE>>
    ELSE IF c.dataType \in {"nvarchar", "nchar"}
    THEN IF c.MaxLength = "-1" THEN <<"max", TRUE>>
         ELSE IF ~Atoi(c.MaxLength).ok THEN <<"", FALSE>>
         ELSE <<Itoa(GoDiv(Atoi(c.MaxLength).val, 2)), TRUE>>
    ELSE IF c.dataType = "datetimeoffset"
    THEN IF c.Scale = "7" THEN <<"", FALSE>> ELSE <<c.Scale, TRUE>>
    ELSE <<"", FALSE>>

\* ------------------------------------------------------------ getColumns

\* a NULL of the result set (a nil pointer after Scan)
NULL == "<NULL>"

\* one scanned row of the column query -> one column (lines 351-383)
ColumnOf(row) ==
    [Name |-> row.colName,
     dataType |-> row.dataType,
     MaxLength |-> row.maxLen,
     Scale |-> row.scale,
     Nullable |-> row.isNullable,
     Identity |-> IF row.isIdentity
                  THEN <<[SeedValue |-> row.seedValue,
                          IncrementValue |-> row.incrementValue,
                          NotForReplication |-> row.identityNotForReplication]>>
                  ELSE <<>>,
     DefaultName |-> IF row.defaultId # "0" THEN row.defaultName ELSE "",
     DefaultVal |-> IF row.defaultId # "0" THEN row.defaultVal ELSE "",
     Check |-> IF row.checkName # NULL
               THEN <<[Name |-> row.checkName,
                       Definition |-> row.checkDefinition,
                       NotForReplication |-> row.checkNotForReplication]>>
               ELSE <<>>]

\* rows: the rows of the column query in the order the backend returns them
getColumns(rows) == [k \in 1..Len(rows) |-> ColumnOf(rows[k])]

\* ----------------------------------------------------------- getIndexDefs

boolToOnOff(in) == IF in THEN "ON" ELSE "OFF"

\* lines 435-447: the options of an index, FILLFACTOR only if it is not 0
IndexOptions(row) ==
    <<[name |-> "PAD_INDEX", value |-> boolToOnOff(row.padIndex)],
      [name |-> "IGNORE_DUP_KEY", value |-> boolToOnOff(row.ignoreDupKey)],
      [name |-> "STATISTICS_NORECOMPUTE", value |-> boolToOnOff(row.noRecompute)],
      [name |-> "STATISTICS_INCREMENTAL", value |-> boolToOnOff(row.incremental)],
      [name |-> "ALLOW_ROW_LOCKS", value |-> boolToOnOff(row.rowLocks)],
      [name |-> "ALLOW_PAGE_LOCKS", value |-> boolToOnOff(row.pageLocks)]>>
    \o (IF row.fillfactor # "0"
        THEN <<[name |-> "FILLFACTOR", value |-> row.fillfactor]>>
        ELSE <<>>)

\* line 449
IndexDefOf(row) ==
    [name |-> row.indexName, columns |-> <<>>, primary |-> row.isPrimary,
     unique |-> row.isUnique, indexType |-> row.typeDesc, included |-> <<>>,
     options |-> IndexOptions(row)]

\* lines 429-451: indexDefMap after the rows k.. of the first query
RECURSIVE ScanIndexes(_, _, _)
ScanIndexes(rows, k, m) ==
    IF k > Len(rows) THEN m
    ELSE ScanIndexes(rows, k + 1,
             [n \in DOMAIN m \cup {rows[k].indexName} |->
                 IF n = rows[k].indexName THEN IndexDefOf(rows[k]) ELSE m[n]])

\* line 478: fmt.Sprintf("[%s]", columnName), and line 484
ColumnDefinition(row) ==
    <<Lit("["), Arg("columnName", row.columnName), Lit("]")>>
    \o (IF ~row.isIncluded /\ row.isDescending THEN <<Lit(" DESC")>> ELSE <<>>)

\* lines 472-488: indexDefMap after the rows k.. of the second query
RECURSIVE ScanIndexColumns(_, _, _)
ScanIndexColumns(rows, k, m) ==
    IF k > Len(rows) THEN m
    ELSE LET row == rows[k]
             d == m[row.indexName]
         IN  ScanIndexColumns(rows, k + 1,
                 [m EXCEPT ![row.indexName] =
                     IF row.isIncluded
                     THEN [d EXCEPT !.included = Append(d.included, ColumnDefinition(row))]
                     ELSE [d EXCEPT !.columns = Append(d.columns, ColumnDefinition(row))]])

\* Go's '<' on the index names of the model (byte order)
StrRank(s) ==
    CASE s = "PK_a" -> 1 [] s = "ix_inc" -> 2 [] s = "ix_key" -> 3 [] s = "pk2" -> 4
      [] OTHER -> 5

\* lines 490-498: the definitions of the map, sorted by name
SortByName(m) ==
    CHOOSE s \in Perms({m[n] : n \in DOMAIN m}) :
        \A a, b \in 1..Len(s) : a < b => StrRank(s[a].name) < StrRank(s[b].name)

\* rows1, rows2: the rows of the two queries in the order the backend returns them
getIndexDefs(rows1, rows2) ==
    SortByName(ScanIndexColumns(rows2, 1, ScanIndexes(rows1, 1, <<>>)))

\* ------------------------------------------------------ buildDumpTableDDL

RECURSIVE Flatten(_)
Flatten(ss) == IF ss = <<>> THEN <<>> ELSE Head(ss) \o Flatten(Tail(ss))

\* strings.Join(parts, ", ")
JoinComma(parts) ==
    Flatten([k \in 1..Len(parts) |->
                (IF k > 1 THEN <<Lit(", ")>> ELSE <<>>) \o parts[k]])

\* lines 137-169: one column
ColumnText(k, col) ==
    (IF k > 1 THEN <<Lit(",")>> ELSE <<>>)
    \o <<Lit("\n    ")>>
    \o getSafeColumnName(col.Name)
    \o <<Lit(" "), Arg("dataType", col.dataType)>>
    \o (IF getLength(col)[2]
        THEN <<Lit("("), Arg("length", getLength(col)[1]), Lit(")")>> ELSE <<>>)
    \o (IF ~col.Nullable THEN <<Lit(" NOT NULL")>> ELSE <<>>)
    \o (IF col.DefaultName # ""
        THEN <<Lit(" CONSTRAINT "), Arg("DefaultName", col.DefaultName),
               Lit(" DEFAULT "), Arg("DefaultVal", col.DefaultVal)>>
        ELSE <<>>)
    \o (IF col.Identity # <<>>
        THEN <<Lit(" IDENTITY("), Arg("SeedValue", col.Identity[1].SeedValue), Lit(","),
               Arg("IncrementValue", col.Identity[1].IncrementValue), Lit(")")>>
             \o (IF col.Identity[1].NotForReplication
                 THEN <<Lit(" NOT FOR REPLICATION")>> ELSE <<>>)
        ELSE <<>>)
    \o (IF col.Check # <<>>
        THEN <<Lit(" CONSTRAINT "), Lit("["), Arg("Check.Name", col.Check[1].Name),
               Lit("]"), Lit(" CHECK")>>
             \o (IF col.Check[1].NotForReplication
                 THEN <<Lit(" NOT FOR REPLICATION")>> ELSE <<>>)
             \o <<Lit(" "), Arg("Check.Definition", col.Check[1].Definition)>>
        ELSE <<>>)

\* ' CLUSTERED' / ' NONCLUSTERED', nothing for any other type
IndexTypeText(indexDef) ==
    IF indexDef.indexType \in {"CLUSTERED", "NONCLUSTERED"}
    THEN <<Lit(" "), Arg("indexType", indexDef.indexType)>> ELSE <<>>

\* ' WITH ( name = value, name = value )'
OptionsText(indexDef) ==
    IF Len(indexDef.options) > 0
    THEN <<Lit(" WITH (")>>
         \o Flatten([k \in 1..Len(indexDef.options) |->
                (IF k > 1 THEN <<Lit(",")>> ELSE <<>>)
                \o <<Lit(" "), Arg("option.name", indexDef.options[k].name), Lit(" = "),
                     Arg("option.value", indexDef.options[k].value)>>])
         \o <<Lit(" )")>>
    ELSE <<>>

\* lines 172-193: the body of the PRIMARY KEY loop
PrimaryKeyText(indexDef) ==
    IF ~indexDef.primary THEN <<>>
    ELSE <<Lit(",\n    "), Lit("CONSTRAINT "), Lit("["), Arg("index.name", indexDef.name),
           Lit("]"), Lit(" PRIMARY KEY")>>
         \o IndexTypeText(indexDef)
         \o <<Lit(" (")>> \o JoinComma(indexDef.columns) \o <<Lit(")")>>
         \o OptionsText(indexDef)

\* the inline loop without its 'len(indexDef.included) > 0' skip
InlineIndexTextNoSkip(indexDef) ==
    IF indexDef.primary THEN <<>>
    ELSE <<Lit(",\n    "), Lit("INDEX "), Lit("["), Arg("index.name", indexDef.name), Lit("]")>>
         \o (IF indexDef.unique THEN <<Lit(" UNIQUE")>> ELSE <<>>)
         \o IndexTypeText(indexDef)
         \o <<Lit(" (")>> \o JoinComma(indexDef.columns) \o <<Lit(")")>>
         \o OptionsText(indexDef)

\* lines 200-231: the body of the inline INDEX loop
InlineIndexText(indexDef) ==
    IF indexDef.primary THEN <<>>
    ELSE IF Len(indexDef.included) > 0 THEN <<>>
    ELSE <<Lit(",\n    "), Lit("INDEX "), Lit("["), Arg("index.name", indexDef.name), Lit("]")>>
         \o (IF indexDef.unique THEN <<Lit(" UNIQUE")>> ELSE <<>>)
         \o IndexTypeText(indexDef)
         \o <<Lit(" (")>> \o JoinComma(indexDef.columns) \o <<Lit(")")>>
         \o OptionsText(indexDef)

\* lines 236-265: the body of the CREATE INDEX loop
CreateIndexText(table, indexDef) ==
    IF Len(indexDef.included) = 0 THEN <<>>
    ELSE IF indexDef.primary THEN <<>>
    ELSE <<Lit("\nCREATE")>>
         \o (IF indexDef.unique THEN <<Lit(" UNIQUE")>> ELSE <<>>)
         \o IndexTypeText(indexDef)
         \o <<Lit(" INDEX "), Lit("["), Arg("index.name", indexDef.name), Lit("]"),
              Lit(" ON ")>> \o TableText(table)
         \o <<Lit(" (")>> \o JoinComma(indexDef.columns) \o <<Lit(")")>>
         \o (IF Len(indexDef.included) > 0
             THEN <<Lit(" INCLUDE (")>> \o JoinComma(indexDef.included) \o <<Lit(")")>>
             ELSE <<>>)
         \o OptionsText(indexDef)
         \o <<Lit(";")>>

\* strings.TrimSuffix(text, "\n")
TrimSuffixNewline(text) ==
    IF Len(text) > 0 /\ text[Len(text)] = Lit("\n")
    THEN SubSeq(text, 1, Len(text) - 1) ELSE text

buildDumpTableDDL(table, columns, idxDefs, fkDefs) ==
    TrimSuffixNewline(
        <<Lit("CREATE TABLE ")>> \o TableText(table) \o <<Lit(" (")>>
        \o Flatten([k \in 1..Len(columns) |-> ColumnText(k, columns[k])])
        \o Flatten([k \in 1..Len(idxDefs) |-> PrimaryKeyText(idxDefs[k])])
        \o Flatten([k \in 1..Len(fkDefs) |-> <<Lit(",\n    ")>> \o fkDefs[k]])
        \o Flatten([k \in 1..Len(idxDefs) |-> InlineIndexText(idxDefs[k])])
        \o <<Lit("\n);"), Lit("\n")>>
        \o Flatten([k \in 1..Len(idxDefs) |-> CreateIndexText(table, idxDefs[k])]))

\* ------------------------------------------------- TableNames: the catalog

\* a single-column foreign key from table e[1] to table e[2]
EdgeFK(e) ==
    [name |-> "fk_" \o e[1][2] \o "_" \o e[2][1] \o "_" \o e[2][2],
     from |-> e[1], to |-> e[2],
     cols |-> <<<<"ref_id", "id">>>>,
     upd |-> "NO_ACTION", del |-> "CASCADE", nfr |-> FALSE]

\* the databases TableNames is run against: user tables and foreign keys among them
TNCatalogs ==
    UNION {{[tables |-> T, fks |-> {EdgeFK(e) : e \in E}] :
                E \in {E \in SUBSET (T \X T) : Cardinality(E) <= MaxFKs}} :
           T \in {T \in SUBSET QNames : Cardinality(T) <= MaxTables}}

\* the orders in which "ORDER BY sys.objects.name" can return the tables: sorted by
\* name, tables of the same name in different schemas in any order
TableRowOrders(T) ==
    {s \in Perms(T) : \A a, b \in 1..Len(s) : a < b => NameRank(s[a][2]) <= NameRank(s[b][2])}

\* --------------------------------------------------- TableNames: the steps

\* RemoveAt without the copy of the last element into the freed slot
RemoveAtNoSwap(ts, k) ==
    SubSeq(ts, 1, Len(ts) - 1)

\* swap-with-last removal: tables[i] = tables[len-1]; tables = tables[:len-1]
RemoveAt(ts, k) ==
    SubSeq([ts EXCEPT ![k] = ts[Len(ts)]], 1, Len(ts) - 1)

\* the inner 'for _, fTableName := range fTableNames' loop
NoDeps(fTableNames, added) ==
    \A k \in 1..Len(fTableNames) : fTableNames[k] \in added

\* the variables of the other operations while this one runs
DumpIdle == cols = <<>> /\ indexDefs = <<>> /\ foreignDefs = <<>>
OptIdle ==
    /\ env = <<>>
    /\ options = <<>>
    /\ database = ""
    /\ password = ""
    /\ config = <<>>
    /\ exitCode = -1
    /\ opened = "none"
TNIdle ==
    /\ tables = <<>>
    /\ foreignTableMap = <<>>
    /\ dependencyOrderedTables = <<>>
    /\ addedTables = {}
    /\ i = 0
    /\ lastTableLen = 0
    /\ passes = 0

TNInit ==
    /\ pc = "tn_query"
    /\ catalog \in TNCatalogs
    /\ tables = <<>>
    /\ foreignTableMap = <<>>
    /\ dependencyOrderedTables = <<>>
    /\ addedTables = {}
    /\ i = 0
    /\ lastTableLen = 0
    /\ passes = 0
    /\ result = <<>>
    /\ err = "none"
    /\ failed = FALSE
    /\ DumpIdle
    /\ OptIdle

\* the operation returns (nil, err)
TNReturnErr ==
    /\ pc' = "tn_done"
    /\ result' = <<>>
    /\ err' = "error"
    /\ failed' = TRUE
    /\ UNCHANGED <<catalog, tables, foreignTableMap, dependencyOrderedTables,
                   addedTables, i, lastTableLen, passes>>
    /\ UNCHANGED <<dumpLocals, optLocals>>

\* lines 54-69: the query of sys.objects and the scan of its rows
TNQueryTables ==
    /\ pc = "tn_query"
    /\ \/ \E rows \in TableRowOrders(catalog.tables) :
            /\ tables' = rows
            /\ pc' = "tn_fkmap"
            /\ UNCHANGED <<catalog, foreignTableMap, dependencyOrderedTables,
                           addedTables, i, lastTableLen, passes, result, err, failed>>
            /\ UNCHANGED <<dumpLocals, optLocals>>
       \/ TNReturnErr

\* lines 75-82: one iteration of the loop filling foreignTableMap
TNForeignMap ==
    /\ pc = "tn_fkmap"
    /\ Len(foreignTableMap) < Len(tables)
    /\ LET tableName == tables[Len(foreignTableMap) + 1]
       IN  \/ \E rows \in Perms(ForeignRows(catalog.fks, tableName)) :
                /\ foreignTableMap' =
                       Append(foreignTableMap,
                              <<tableName, getForeignDefs(tableName, rows).foreignTableNames>>)
                /\ UNCHANGED <<pc, catalog, tables, dependencyOrderedTables,
                               addedTables, i, lastTableLen, passes, result, err, failed>>
                /\ UNCHANGED <<dumpLocals, optLocals>>
           \/ TNReturnErr

\* foreignTableMap[tableName]
MapGet(m, tableName) ==
    IF \E k \in 1..Len(m) : m[k][1] = tableName
    THEN m[CHOOSE k \in 1..Len(m) : m[k][1] = tableName][2]
    ELSE <<>>

\* the pass counter stops counting at PassCap
PassCap == MaxTables + 3

\* a pass-end test that never breaks out of the loop
NoProgressNever(lastLen, tbls) == FALSE

\* line 108: 'lastTableLen == len(tables)', the pass has moved no table
NoProgress(lastLen, tbls) == lastLen = Len(tbls)

\* line 86: 'for len(tables) > 0', entered from the map loop or from the end of a pass
TNOuter ==
    /\ pc \in {"tn_fkmap", "tn_outer"}
    /\ pc = "tn_fkmap" => Len(foreignTableMap) = Len(tables)
    /\ IF Len(tables) > 0
       THEN /\ lastTableLen' = Len(tables)
            /\ i' = 0
            /\ passes' = IF passes < PassCap THEN passes + 1 ELSE passes
            /\ pc' = "tn_inner"
       ELSE /\ pc' = "tn_append"
            /\ UNCHANGED <<lastTableLen, i, passes>>
    /\ UNCHANGED <<catalog, tables, foreignTableMap, dependencyOrderedTables,
                   addedTables, result, err, failed>>
    /\ UNCHANGED <<dumpLocals, optLocals>>

\* lines 88-106: one iteration of 'for i := 0; i < len(tables);'
TNInner ==
    /\ pc = "tn_inner"
    /\ i < Len(tables)
    /\ LET tableName == tables[i + 1]
           fTableNames == MapGet(foreignTableMap, tableName)
       IN  IF NoDeps(fTableNames, addedTables)
           THEN /\ addedTables' = addedTables \cup {tableName}
                /\ dependencyOrderedTables' = Append(dependencyOrderedTables, tableName)
                /\ tables' = RemoveAt(tables, i + 1)
                /\ UNCHANGED i
           ELSE /\ i' = i + 1
                /\ UNCHANGED <<addedTables, dependencyOrderedTables, tables>>
    /\ UNCHANGED <<pc, catalog, foreignTableMap, lastTableLen, passes, result, err, failed>>
    /\ UNCHANGED <<dumpLocals, optLocals>>

\* lines 107-110: the end of a pass
TNPassEnd ==
    /\ pc = "tn_inner"
    /\ i >= Len(tables)
    /\ pc' = IF NoProgress(lastTableLen, tables) THEN "tn_append" ELSE "tn_outer"
    /\ UNCHANGED <<catalog, tables, foreignTableMap, dependencyOrderedTables,
                   addedTables, i, lastTableLen, passes, result, err, failed>>
    /\ UNCHANGED <<dumpLocals, optLocals>>

\* lines 112-115: the leftover is appended and the list returned
TNAppend ==
    /\ pc = "tn_append"
    /\ result' = dependencyOrderedTables \o tables
    /\ pc' = "tn_done"
    /\ UNCHANGED <<catalog, tables, foreignTableMap, dependencyOrderedTables,
                   addedTables, i, lastTableLen, passes, err, failed>>
    /\ UNCHANGED <<dumpLocals, optLocals>>

TNNext ==
    \/ TNQueryTables
    \/ TNForeignMap
    \/ TNOuter
    \/ TNInner
    \/ TNPassEnd
    \/ TNAppend

SpecTableNames == TNInit /\ [][TNNext]_vars

\* ------------------------------------------------ TableNames: the claims

\* the tables the foreign keys of t reference, as the catalog has them
Refs(t) == {fk.to : fk \in {f \in catalog.fks : f.from = t}}

\* the tables reachable from the tables of S over at most n further references
RECURSIVE ReachFrom(_, _)
ReachFrom(S, n) ==
    IF n = 0 THEN S ELSE ReachFrom(S \cup UNION {Refs(t) : t \in S}, n - 1)

\* reachable over one or more references / over zero or more references
ReachPlus(t) == ReachFrom(Refs(t), Cardinality(catalog.tables))
ReachStar(t) == ReachFrom({t}, Cardinality(catalog.tables))

\* t lies on a foreign-key cycle, or transitively references a table that does
CyclicFK(t) == \E u \in ReachStar(t) : u \in ReachPlus(u)

\* the position of table t in the returned list (0: not in it)
PosIn(s, t) == IF \E k \in 1..Len(s) : s[k] = t THEN CHOOSE k \in 1..Len(s) : s[k] = t ELSE 0

TNReturned == pc = "tn_done" /\ err = "none"

\* C1: in the returned list every table of the dependency-ordered part comes
\* strictly after every table its foreign keys reference, and every leftover
\* table comes after all the dependency-ordered ones.
C1_OrderedAfterReferenced ==
    TNReturned =>
        /\ \A t \in Range(dependencyOrderedTables) : \A r \in Refs(t) :
               /\ PosIn(result, r) > 0
               /\ PosIn(result, r) < PosIn(result, t)
        /\ \A t \in Range(tables) : PosIn(result, t) > Len(dependencyOrderedTables)

\* C2: the leftover appended at the end is exactly the set of cyclic-FK tables
\* (on a foreign-key cycle, or transitively referencing a table on one); every
\* other table, one with a cross-schema foreign key included, is ordered.
C2_LeftoverIsCyclic ==
    TNReturned => Range(tables) = {t \in catalog.tables : CyclicFK(t)}

\* C10: at every step of the ordering loop, and in the returned list, the ordered
\* list followed by the remaining 'tables' holds each queried table exactly once.
C10_Permutation ==
    /\ pc \in {"tn_fkmap", "tn_outer", "tn_inner", "tn_append"} =>
           /\ Len(dependencyOrderedTables) + Len(tables) = Cardinality(catalog.tables)
           /\ Range(dependencyOrderedTables) \cup Range(tables) = catalog.tables
    /\ TNReturned =>
           /\ Len(result) = Cardinality(catalog.tables)
           /\ Range(result) = catalog.tables

\* a removal that was not of the last element has happened, tables remain on both
\* sides and one of them is self-referencing
C10_Witness ==
    /\ pc = "tn_inner"
    /\ Len(dependencyOrderedTables) >= 1
    /\ Len(tables) >= 2
    /\ \E a, b \in 1..Len(tables) : a < b /\ NameRank(tables[a][2]) > NameRank(tables[b][2])
    /\ \E t \in catalog.tables : t \in Refs(t)

\* the operation is a sequential program: while a step is possible one is taken
SpecTableNamesFair == TNInit /\ [][TNNext]_vars /\ WF_vars(TNNext)

\* C11: the ordering loop terminates for every table set and every foreign-key
\* graph: the operation always returns; whenever the loop goes on to another
\* pass, the pass just ended has moved at least one table from 'tables' to the
\* ordered list; and the number of outer passes never exceeds the number of
\* tables plus one.
C11_LoopTerminates ==
    /\ [](passes <= Cardinality(catalog.tables) + 1)
    /\ [](pc = "tn_outer" =>
              /\ Len(tables) < lastTableLen
              /\ Len(dependencyOrderedTables) > Cardinality(catalog.tables) - lastTableLen)
    /\ <>(pc = "tn_done")

\* the operation has returned after two or more passes, the last of which moved
\* nothing: the leftover holds a self-referencing table, a table on a longer cycle
\* or a table referencing one that is not listed
C11_Witness ==
    /\ TNReturned
    /\ passes >= 2
    /\ Len(tables) >= 1
    /\ \/ \E t \in Range(tables) : t \in Refs(t)
       \/ \E t \in Range(tables) : t \notin Refs(t) /\ t \in ReachPlus(t)
       \/ \E t \in Range(tables) : ~(Refs(t) \subseteq catalog.tables)

\* ----------------------------------------------- DumpTableDDL: the catalog

NoIdentity == [isIdentity |-> FALSE, seedValue |-> NULL, incrementValue |-> NULL,
               identityNotForReplication |-> NULL]
NoDefault == [defaultId |-> "0", defaultName |-> NULL, defaultVal |-> NULL]
NoCheck == [checkName |-> NULL, checkDefinition |-> NULL, checkNotForReplication |-> NULL]

\* a row of the column query: the fields of sys.columns, sys.identity_columns,
\* the default object and sys.check_constraints
ColumnRow(base, identity, default, check) ==
    [colName |-> base[1], dataType |-> base[2], maxLen |-> base[3], scale |-> base[4],
     isNullable |-> base[5],
     isIdentity |-> identity.isIdentity, seedValue |-> identity.seedValue,
     incrementValue |-> identity.incrementValue,
     identityNotForReplication |-> identity.identityNotForReplication,
     defaultId |-> default.defaultId, defaultName |-> default.defaultName,
     defaultVal |-> default.defaultVal,
     checkName |-> check.checkName, checkDefinition |-> check.checkDefinition,
     checkNotForReplication |-> check.checkNotForReplication]

\* the columns a dumped table is made of
ColumnUniverse ==
    {ColumnRow(<<"id", "int", "4", "0", FALSE>>,
               [isIdentity |-> TRUE, seedValue |-> "1", incrementValue |-> "1",
                identityNotForReplication |-> FALSE],
               NoDefault, NoCheck),
     ColumnRow(<<"Key", "nvarchar", "40", "0", TRUE>>,
               NoIdentity,
               [defaultId |-> "7", defaultName |-> "DF_Key", defaultVal |-> "(N'x')"],
               NoCheck),
     ColumnRow(<<"order", "varchar", "-1", "0", FALSE>>,
               NoIdentity,
               [defaultId |-> "8", defaultName |-> "index", defaultVal |-> "('')"],
               [checkName |-> "key", checkDefinition |-> "([order]<>'')",
                checkNotForReplication |-> TRUE]),
     ColumnRow(<<"ts", "datetimeoffset", "10", "3", TRUE>>,
               NoIdentity, NoDefault,
               [checkName |-> "ck_ts", checkDefinition |-> "([ts] IS NOT NULL)",
                checkNotForReplication |-> FALSE])}

IndexColumn(name, desc, incl) ==
    [columnName |-> name, isDescending |-> desc, isIncluded |-> incl]

\* the indexes of sys.indexes (joined with sys.stats) with their sys.index_columns
IndexUniverse ==
    {[indexName |-> "PK_a", isPrimary |-> TRUE, isUnique |-> TRUE, typeDesc |-> "CLUSTERED",
      padIndex |-> FALSE, fillfactor |-> "0", ignoreDupKey |-> FALSE, noRecompute |-> FALSE,
      incremental |-> FALSE, rowLocks |-> TRUE, pageLocks |-> TRUE,
      indexColumns |-> {IndexColumn("id", FALSE, FALSE)}],
     [indexName |-> "ix_key", isPrimary |-> FALSE, isUnique |-> FALSE,
      typeDesc |-> "NONCLUSTERED",
      padIndex |-> TRUE, fillfactor |-> "80", ignoreDupKey |-> FALSE, noRecompute |-> FALSE,
      incremental |-> FALSE, rowLocks |-> TRUE, pageLocks |-> FALSE,
      indexColumns |-> {IndexColumn("Key", FALSE, FALSE), IndexColumn("id", TRUE, FALSE)}],
     [indexName |-> "ix_inc", isPrimary |-> FALSE, isUnique |-> TRUE,
      typeDesc |-> "NONCLUSTERED",
      padIndex |-> FALSE, fillfactor |-> "0", ignoreDupKey |-> TRUE, noRecompute |-> TRUE,
      incremental |-> FALSE, rowLocks |-> TRUE, pageLocks |-> TRUE,
      indexColumns |-> {IndexColumn("Key", FALSE, FALSE), IndexColumn("id", FALSE, TRUE)}],
     [indexName |-> "pk2", isPrimary |-> TRUE, isUnique |-> TRUE,
      typeDesc |-> "NONCLUSTERED",
      padIndex |-> FALSE, fillfactor |-> "0", ignoreDupKey |-> FALSE, noRecompute |-> FALSE,
      incremental |-> FALSE, rowLocks |-> TRUE, pageLocks |-> TRUE,
      indexColumns |-> {IndexColumn("order", TRUE, FALSE), IndexColumn("id", FALSE, FALSE)}]}

\* the foreign keys of a dumped table t: one over one column, one over two
ForeignKeyUniverse(t) ==
    {[name |-> "fk_one", from |-> t, to |-> <<"dbo", "b">>,
      cols |-> <<<<"Key", "code">>>>,
      upd |-> "NO_ACTION", del |-> "CASCADE", nfr |-> FALSE],
     [name |-> "fk_two", from |-> t, to |-> <<"s2", "b">>,
      cols |-> <<<<"id", "x">>, <<"Key", "y">>>>,
      upd |-> "SET_NULL", del |-> "NO_ACTION", nfr |-> TRUE]}

DumpTables == {<<"dbo", "a">>, <<"dbo", "order">>}

\* the tables DumpTableDDL is run on: up to MaxCols columns, up to MaxIndexes
\* indexes (one primary key at most) and up to MaxFKs foreign keys, all over the
\* table's own columns
DumpCatalogs ==
    {c \in [table : DumpTables,
            columns : {C \in SUBSET ColumnUniverse : Cardinality(C) \in 1..MaxCols},
            indexes : {X \in SUBSET IndexUniverse : Cardinality(X) <= MaxIndexes},
            fks : UNION {SUBSET ForeignKeyUniverse(t) : t \in DumpTables}] :
        LET names == {r.colName : r \in c.columns}
        IN  /\ Cardinality({x \in c.indexes : x.isPrimary}) <= 1
            /\ \A x \in c.indexes : \A ic \in x.indexColumns : ic.columnName \in names
            /\ Cardinality(c.fks) <= MaxFKs
            /\ \A fk \in c.fks :
                   /\ fk.from = c.table
                   /\ \A k \in 1..Len(fk.cols) : fk.cols[k][1] \in names}

\* the rows of the first query of getIndexDefs
IndexRows(cat) ==
    {[f \in DOMAIN x \ {"indexColumns"} |-> x[f]] : x \in cat.indexes}

\* the rows of the second query of getIndexDefs
IndexColumnRows(cat) ==
    UNION {{[indexName |-> x.indexName, columnName |-> ic.columnName,
             isDescending |-> ic.isDescending, isIncluded |-> ic.isIncluded] :
                ic \in x.indexColumns} : x \in cat.indexes}

\* ------------------------------------------------- DumpTableDDL: the steps

DInit ==
    /\ pc = "d_columns"
    /\ catalog \in DumpCatalogs
    /\ result = <<>>
    /\ err = "none"
    /\ failed = FALSE
    /\ TNIdle
    /\ DumpIdle
    /\ OptIdle

\* a query or a row scan fails and the error is returned: return "", err
DReturnErr ==
    /\ pc' = "d_done"
    /\ result' = <<>>
    /\ err' = "error"
    /\ failed' = TRUE
    /\ UNCHANGED <<catalog, dumpLocals, tnLocals, optLocals>>

\* lines 343-347: the column query fails; the error is printed, rows is nil and
\* rows.Next() dereferences it
DColumnsQueryFails ==
    /\ pc' = "d_done"
    /\ result' = <<>>
    /\ err' = "panic"
    /\ failed' = TRUE
    /\ UNCHANGED <<catalog, dumpLocals, tnLocals, optLocals>>

\* lines 119-122, getColumns
DGetColumns ==
    /\ pc = "d_columns"
    /\ \/ \E rows \in Perms(catalog.columns) :
            /\ cols' = getColumns(rows)
            /\ pc' = "d_indexes"
            /\ UNCHANGED <<catalog, result, err, failed, indexDefs, foreignDefs,
                           tnLocals, optLocals>>
       \/ DColumnsQueryFails
       \/ DReturnErr

\* lines 123-126, getIndexDefs
DGetIndexDefs ==
    /\ pc = "d_indexes"
    /\ \/ \E rows1 \in Perms(IndexRows(catalog)) :
          \E rows2 \in Perms(IndexColumnRows(catalog)) :
            /\ indexDefs' = getIndexDefs(rows1, rows2)
            /\ pc' = "d_foreign"
            /\ UNCHANGED <<catalog, result, err, failed, cols, foreignDefs,
                           tnLocals, optLocals>>
       \/ DReturnErr

\* lines 127-130, getForeignDefs
DGetForeignDefs ==
    /\ pc = "d_foreign"
    /\ \/ \E rows \in Perms(ForeignRows(catalog.fks, catalog.table)) :
            /\ foreignDefs' = getForeignDefs(catalog.table, rows).defs
            /\ pc' = "d_build"
            /\ UNCHANGED <<catalog, result, err, failed, cols, indexDefs,
                           tnLocals, optLocals>>
       \/ DReturnErr

\* line 131
DBuild ==
    /\ pc = "d_build"
    /\ result' = buildDumpTableDDL(catalog.table, cols, indexDefs, foreignDefs)
    /\ pc' = "d_done"
    /\ UNCHANGED <<catalog, err, failed, dumpLocals, tnLocals, optLocals>>

DNext ==
    \/ DGetColumns
    \/ DGetIndexDefs
    \/ DGetForeignDefs
    \/ DBuild

SpecDump == DInit /\ [][DNext]_vars

\* ---------------------------------------------- DumpTableDDL: the claims

DReturned == pc = "d_done" /\ err = "none"

\* the positions of a fragment in a text
Positions(text, tok) == {p \in 1..Len(text) : text[p] = tok}

\* the fragment at p stands between '[' and ']'
Bracketed(text, p) ==
    /\ p > 1
    /\ p < Len(text)
    /\ text[p - 1] = Lit("[")
    /\ text[p + 1] = Lit("]")

\* every DDL text DumpTableDDL can return for a catalog, over all the orders in
\* which the backend can return the rows of the four queries
AllDumps(cat) ==
    {buildDumpTableDDL(cat.table, getColumns(rc), getIndexDefs(r1, r2),
                       getForeignDefs(cat.table, rf).defs) :
        rc \in Perms(cat.columns), r1 \in Perms(IndexRows(cat)),
        r2 \in Perms(IndexColumnRows(cat)),
        rf \in Perms(ForeignRows(cat.fks, cat.table))}

\* C3: for a fixed database content the DDL returned by DumpTableDDL is the same
\* for every order in which the backend returns the rows of the catalog queries.
C3_RowOrderIndependent ==
    DReturned => AllDumps(catalog) = {result}

\* C4: the CREATE TABLE statement holds each foreign key of the table exactly once,
\* identified by its constraint name, a foreign key over several columns included.
C4_ForeignKeyOnce ==
    DReturned =>
        \A fk \in catalog.fks :
            Cardinality(Positions(result, Arg("constraintName", fk.name))) = 1

\* the position of the ');' that closes CREATE TABLE
ClosePos(text) == CHOOSE p \in 1..Len(text) : text[p] = Lit("\n);")

\* C5: every index of indexDefs is emitted exactly once and in one form: a primary
\* index as CONSTRAINT ... PRIMARY KEY inside CREATE TABLE, a non-primary index
\* without included columns as an inline INDEX clause inside CREATE TABLE, one with
\* included columns as a CREATE INDEX ... INCLUDE statement after the closing ');';
\* inside CREATE TABLE: columns, then primary key, then foreign keys, then indexes.
C5_IndexForms ==
    DReturned =>
        LET close == ClosePos(result)
            namePos(x) == Positions(result, Arg("index.name", x.name))
            colPos == {p \in 1..Len(result) : result[p].k = "Name"}
            pkPos == {p \in 1..Len(result) : result[p] = Lit(" PRIMARY KEY")}
            fkPos == {p \in 1..Len(result) : result[p].k = "constraintName"}
            inlPos == {p \in 1..Len(result) : result[p] = Lit("INDEX ")}
        IN  /\ Cardinality(Positions(result, Lit("\n);"))) = 1
            /\ \A k \in 1..Len(indexDefs) :
                 LET x == indexDefs[k]
                 IN  /\ Cardinality(namePos(x)) = 1
                     /\ \A p \in namePos(x) :
                          IF x.primary
                          THEN /\ p < close
                               /\ result[p - 2] = Lit("CONSTRAINT ")
                               /\ result[p + 2] = Lit(" PRIMARY KEY")
                          ELSE IF Len(x.included) = 0
                          THEN /\ p < close
                               /\ result[p - 2] = Lit("INDEX ")
                          ELSE /\ p > close
                               /\ result[p - 2] = Lit(" INDEX ")
                               /\ \E q \in p..Len(result) : result[q] = Lit(" INCLUDE (")
            /\ \A a \in colPos, b \in pkPos \cup fkPos \cup inlPos : a < b
            /\ \A a \in pkPos, b \in fkPos \cup inlPos : a < b
            /\ \A a \in fkPos, b \in inlPos : a < b
            /\ \A a \in colPos \cup pkPos \cup fkPos \cup inlPos : a < close

\* a dump with an index of each of the three forms, and a foreign key
C5_Witness ==
    /\ DReturned
    /\ \E a, b, c \in 1..Len(indexDefs) :
          /\ indexDefs[a].primary
          /\ ~indexDefs[b].primary /\ Len(indexDefs[b].included) = 0
          /\ ~indexDefs[c].primary /\ Len(indexDefs[c].included) > 0
    /\ Len(foreignDefs) > 0

\* C6: whenever a catalog query or a row scan fails, the operation returns a
\* non-nil error and no table list or DDL text.
C6_FailureReturnsError ==
    failed => err = "error" /\ result = <<>>

\* the fields that hold identifiers
IdentKinds == {"table", "Name", "DefaultName", "Check.Name", "index.name", "columnName"}

\* C9: every identifier of the DDL (table name, column name, default-constraint
\* name, check-constraint name, index name, index column) that is a reserved
\* keyword, compared case-insensitively, stands in square brackets, and a column
\* name that is not a reserved keyword is emitted unchanged.
C9_KeywordsQuoted ==
    DReturned =>
        \A p \in 1..Len(result) :
            /\ (/\ result[p].k \in IdentKinds
                /\ ToLower(result[p].s) \in reservedKeywords)
                   => Bracketed(result, p)
            /\ (/\ result[p].k = "Name"
                /\ ToLower(result[p].s) \notin reservedKeywords)
                   => ~Bracketed(result, p)

\* ------------------------------------------------- mysqldef: the inputs

\* the sequences over S of length lo..hi
SeqsUpTo(S, lo, hi) == UNION {[1..n -> S] : n \in lo..hi}

DbNames == {"db1", "db2"}
FileNames == {"-", "current.sql"}

\* what parseOptions reads: whether go-flags rejects the command line, the options
\* it has parsed (opts.File holds "-" when no --file is given), the positional
\* arguments left over, the environment variable MYSQL_PWD and what
\* term.ReadPassword returns
Environments ==
    [parseErr : BOOLEAN, Help : BOOLEAN, Version : BOOLEAN, Prompt : BOOLEAN,
     Password : {"", "secret"},
     File : SeqsUpTo(FileNames, 1, MaxFiles),
     args : SeqsUpTo(DbNames, 0, MaxArgs),
     MYSQL_PWD : {[set |-> FALSE, value |-> ""], [set |-> TRUE, value |-> ""],
                  [set |-> TRUE, value |-> "envpw"]},
     tty : {[ok |-> TRUE, pass |-> "typed"], [ok |-> FALSE, pass |-> ""]}]

\* sqldef.ParseFiles: the first --file is the desired schema, the rest the current one
ParseFiles(files) == [desiredFile |-> files[1], currentFile |-> Tail(files)]

\* -------------------------------------------------- mysqldef: parseOptions

\* the validation of lines 66-75 without its 'len(args) > 1' branch
ValidateArgsNoMultiple(currentFile, args) ==
    IF Len(currentFile) = 0 /\ Len(args) = 0 THEN "none" ELSE "ok"

\* lines 66-75: the positional arguments when no current-schema file is given
ValidateArgs(currentFile, args) ==
    IF Len(currentFile) = 0
    THEN IF Len(args) = 0 THEN "none"
         ELSE IF Len(args) > 1 THEN "multiple"
         ELSE "ok"
    ELSE "ok"

\* os.Getenv in place of os.LookupEnv: an empty MYSQL_PWD counts as not set
LookupPasswordGetenv(e) ==
    IF e.MYSQL_PWD.set /\ e.MYSQL_PWD.value # "" THEN e.MYSQL_PWD.value ELSE e.Password

\* lines 79-82: password, ok := os.LookupEnv("MYSQL_PWD"); if !ok { opts.Password }
LookupPassword(e) ==
    IF e.MYSQL_PWD.set THEN e.MYSQL_PWD.value ELSE e.Password

OInit ==
    /\ pc = "o_parse"
    /\ env \in Environments
    /\ options = <<>>
    /\ database = ""
    /\ password = ""
    /\ config = <<>>
    /\ exitCode = -1
    /\ opened = "none"
    /\ catalog = <<>>
    /\ result = <<>>
    /\ err = "none"
    /\ failed = FALSE
    /\ TNIdle
    /\ DumpIdle

\* os.Exit(code) / log.Fatal inside parseOptions
OExit(code) ==
    /\ pc' = "o_exit"
    /\ exitCode' = code
    /\ UNCHANGED <<env, options, database, password, config, opened>>

Others == <<catalog, result, err, failed, tnLocals, dumpLocals>>

\* lines 39-44: parser.ParseArgs; an error (an unknown flag) is fatal
OParseArgs ==
    /\ pc = "o_parse"
    /\ IF env.parseErr THEN OExit(1)
       ELSE pc' = "o_help" /\ UNCHANGED optLocals
    /\ UNCHANGED Others

\* lines 46-49
OHelp ==
    /\ pc = "o_help"
    /\ IF env.Help THEN OExit(0)
       ELSE pc' = "o_version" /\ UNCHANGED optLocals
    /\ UNCHANGED Others

\* lines 51-54
OVersion ==
    /\ pc = "o_version"
    /\ IF env.Version THEN OExit(0)
       ELSE pc' = "o_files" /\ UNCHANGED optLocals
    /\ UNCHANGED Others

\* lines 56-77
ODatabase ==
    /\ pc = "o_files"
    /\ LET files == ParseFiles(env.File)
       IN  IF ValidateArgs(files.currentFile, env.args) # "ok"
           THEN /\ pc' = "o_exit"
                /\ exitCode' = 1
                /\ options' = [DesiredFile |-> files.desiredFile,
                               CurrentFile |-> files.currentFile]
                /\ UNCHANGED <<env, database, password, config, opened>>
           ELSE /\ pc' = "o_password"
                /\ options' = [DesiredFile |-> files.desiredFile,
                               CurrentFile |-> files.currentFile]
                /\ database' = IF Len(files.currentFile) = 0 THEN env.args[1] ELSE ""
                /\ UNCHANGED <<env, password, config, exitCode, opened>>
    /\ UNCHANGED Others

\* lines 79-82
OPassword ==
    /\ pc = "o_password"
    /\ password' = LookupPassword(env)
    /\ pc' = "o_prompt"
    /\ UNCHANGED <<env, options, database, config, exitCode, opened>>
    /\ UNCHANGED Others

\* lines 84-102: the prompt, then the config is built and returned
OPrompt ==
    /\ pc = "o_prompt"
    /\ IF env.Prompt /\ ~env.tty.ok
       THEN OExit(1)
       ELSE LET pw == IF env.Prompt THEN env.tty.pass ELSE password
            IN  /\ password' = pw
                /\ config' = [DbName |-> database, User |-> "root", Password |-> pw,
                              Host |-> "127.0.0.1", Port |-> 3306, Socket |-> "",
                              MySQLEnableCleartextPlugin |-> FALSE]
                /\ pc' = "m_open"
                /\ UNCHANGED <<env, options, database, exitCode, opened>>
    /\ UNCHANGED Others

\* ----------------------------------------------------------- mysqldef: main

\* lines 108-118: the file database, or a MySQL connection (whose failure is fatal)
MOpen ==
    /\ pc = "m_open"
    /\ \/ /\ Len(options.CurrentFile) > 0
          /\ opened' = "file"
          /\ pc' = "m_run"
          /\ UNCHANGED exitCode
       \/ /\ Len(options.CurrentFile) = 0
          /\ opened' = "mysql"
          /\ pc' = "m_run"
          /\ UNCHANGED exitCode
       \/ /\ Len(options.CurrentFile) = 0
          /\ opened' = "none"
          /\ pc' = "m_exit"
          /\ exitCode' = 1
    /\ UNCHANGED <<env, options, database, password, config>>
    /\ UNCHANGED Others

\* line 120: sqldef.Run, which ends the process with 0, or with 1 on an error
MRun ==
    /\ pc = "m_run"
    /\ pc' = "m_exit"
    /\ exitCode' \in {0, 1}
    /\ UNCHANGED <<env, options, database, password, config, opened>>
    /\ UNCHANGED Others

ONext ==
    \/ OParseArgs
    \/ OHelp
    \/ OVersion
    \/ ODatabase
    \/ OPassword
    \/ OPrompt
    \/ MOpen
    \/ MRun

SpecOptions == OInit /\ [][ONext]_vars

\* ---------------------------------------------------- mysqldef: the claims

\* parseOptions has returned its config
OReturned == config # <<>>

\* C7: MYSQL_PWD overrides --password: whenever it is set, even to the empty
\* string, the Password of the returned config is its value, and the --password
\* value when it is not set; only a password read at the prompt precedes both.
C7_PasswordPrecedence ==
    OReturned =>
        config.Password =
            IF env.Prompt THEN env.tty.pass
            ELSE IF env.MYSQL_PWD.set THEN env.MYSQL_PWD.value
            ELSE env.Password

\* a config returned with MYSQL_PWD set to the empty string against a --password
C7_Witness ==
    /\ OReturned
    /\ ~env.Prompt
    /\ env.MYSQL_PWD = [set |-> TRUE, value |-> ""]
    /\ env.Password = "secret"
    /\ config.Password = ""

\* a current-schema file is given (a second --file)
CurrentGiven == Len(ParseFiles(env.File).currentFile) > 0

AfterValidation == {"o_password", "o_prompt", "m_open", "m_run", "m_exit"}

\* C8: without a current-schema file exactly one positional database name is
\* required: with none or several the process exits with 1 and no connection is
\* opened; with a current-schema file the arguments are not required, DbName is
\* empty and main uses the file database, never MySQL; --help and --version exit
\* with 0 before this validation.
C8_DatabaseArgument ==
    ~env.parseErr =>
        /\ (~env.Help /\ ~env.Version /\ ~CurrentGiven /\ Len(env.args) # 1) =>
               /\ pc \notin AfterValidation
               /\ opened = "none"
               /\ ~OReturned
               /\ pc = "o_exit" => exitCode = 1
        /\ (~env.Help /\ ~env.Version /\ CurrentGiven) =>
               /\ pc = "o_exit" => (env.Prompt /\ ~env.tty.ok)
               /\ OReturned => config.DbName = ""
               /\ opened # "mysql"
               /\ pc \in {"m_run", "m_exit"} => opened = "file"
        /\ (~env.Help /\ ~env.Version /\ ~CurrentGiven /\ Len(env.args) = 1) =>
               /\ pc = "o_exit" => (env.Prompt /\ ~env.tty.ok)
               /\ OReturned => config.DbName = env.args[1]
        /\ (env.Help \/ env.Version) =>
               /\ pc \notin {"o_files"} \cup AfterValidation
               /\ options = <<>>
               /\ opened = "none"
               /\ pc = "o_exit" => exitCode = 0

\* the process has exited with 1 on several database names, nothing opened
C8_Witness ==
    /\ pc = "o_exit"
    /\ exitCode = 1
    /\ ~env.parseErr
    /\ options # <<>>
    /\ ~CurrentGiven
    /\ Len(env.args) > 1
    /\ opened = "none"

\* --------------------------------------- the length suffix of a dumped column

MaxScale == 7

\* values of sys.types.name
DataTypes == {"char", "varchar", "binary", "varbinary", "nvarchar", "nchar",
              "datetimeoffset", "decimal", "numeric", "int", "datetime2"}

\* values of sys.columns.max_length (-1 for a 'max' type) as their decimal text,
\* and texts that are not the text of an integer
NotIntegers == {"", "max", "4.5"}
MaxLengths == {Itoa(n) : n \in {-1} \cup 1..MaxColumnLength} \cup NotIntegers

\* values of sys.columns.scale as their decimal text
Scales == {Itoa(n) : n \in 0..MaxScale}

LengthCatalogs ==
    {[table |-> <<"dbo", "a">>,
      columns |-> {ColumnRow(<<"c", dt, ml, sc, nullable>>, NoIdentity, NoDefault, NoCheck)}] :
        dt \in DataTypes, ml \in MaxLengths, sc \in Scales, nullable \in BOOLEAN}

\* DumpTableDDL of a table of one column, without indexes and foreign keys
LInit ==
    /\ pc = "l_columns"
    /\ catalog \in LengthCatalogs
    /\ result = <<>>
    /\ err = "none"
    /\ failed = FALSE
    /\ TNIdle
    /\ DumpIdle
    /\ OptIdle

\* line 119, getColumns
LGetColumns ==
    /\ pc = "l_columns"
    /\ \E rows \in Perms(catalog.columns) : cols' = getColumns(rows)
    /\ pc' = "l_build"
    /\ UNCHANGED <<catalog, result, err, failed, indexDefs, foreignDefs, tnLocals, optLocals>>

\* lines 123-131: the table has no index and no foreign key, both reads give
\* empty lists; buildDumpTableDDL
LBuild ==
    /\ pc = "l_build"
    /\ result' = buildDumpTableDDL(catalog.table, cols, indexDefs, foreignDefs)
    /\ pc' = "l_done"
    /\ UNCHANGED <<catalog, err, failed, dumpLocals, tnLocals, optLocals>>

LNext ==
    \/ LGetColumns
    \/ LBuild

SpecLength == LInit /\ [][LNext]_vars

\* the parenthesised suffix that follows the data type in the dumped text:
\* <<s>> for '(s)', <<>> when the data type is followed by something else
SuffixOf(text) ==
    LET p == CHOOSE q \in 1..Len(text) : text[q].k = "dataType"
    IN  IF p + 3 <= Len(text) /\ text[p + 1] = Lit("(") /\ text[p + 3] = Lit(")")
        THEN <<text[p + 2].s>>
        ELSE <<>>

\* the row of sys.columns the dumped column was read from
LengthRow == CHOOSE row \in catalog.columns : TRUE

\* C12: the length suffix of a dumped column follows from its data type,
\* max_length and scale: char, varchar, binary, varbinary carry max_length, or
\* 'max' for -1; nvarchar and nchar carry 'max' for -1, else half of the integer
\* max_length rounded down, and nothing when max_length is not an integer;
\* datetimeoffset carries its scale, and nothing for scale 7; every other data
\* type, decimal and numeric included, carries no suffix.
C12_LengthSuffix ==
    pc = "l_done" =>
        LET dt == LengthRow.dataType
            ml == LengthRow.maxLen
            sc == LengthRow.scale
            sfx == SuffixOf(result)
        IN  /\ dt \in {"char", "varchar", "binary", "varbinary"} =>
                   sfx = IF ml = "-1" THEN <<"max">> ELSE <<ml>>
            /\ dt \in {"nvarchar", "nchar"} =>
                   /\ ml = "-1" => sfx = <<"max">>
                   /\ \A n \in 0..MaxColumnLength :
                          ml = Itoa(n) =>
                              \E q \in 0..n : 2 * q <= n /\ n < 2 * q + 2 /\ sfx = <<Itoa(q)>>
                   /\ ml \in NotIntegers => sfx = <<>>
            /\ dt = "datetimeoffset" => sfx = IF sc = "7" THEN <<>> ELSE <<sc>>
            /\ dt \notin {"char", "varchar", "binary", "varbinary", "nvarchar", "nchar",
                          "datetimeoffset"} =>
                   /\ sfx = <<>>
                   /\ \A q \in 1..Len(result) : result[q].k \notin {"length", "Scale", "Precision"}

\* an nvarchar column of odd max_length has been dumped with half of it, rounded down
C12_Witness ==
    /\ pc = "l_done"
    /\ LengthRow.dataType = "nvarchar"
    /\ LengthRow.maxLen = "7"
    /\ SuffixOf(result) = <<"3">>

====
